---- MODULE Spec2Model ----
(***************************************************************************)
(* State-machine model of src/airqualitydata.js (CDMX air quality data     *)
(* retrieval): parseAirQualityHtml, the table extractor and record         *)
(* builder, and processAirQualityData, the aggregator.                     *)
(*                                                                         *)
(* Texts are TLA+ strings; a JavaScript number is a one-element sequence   *)
(* <<n>> and NaN / null / "no match" is the empty sequence, so that every  *)
(* comparison against NaN is false as in JavaScript.  Concentration values *)
(* are counted in tenths (12.5 is <<125>>); the cell texts of the model    *)
(* carry at most one fractional digit, so the count is exact.              *)
(***************************************************************************)
EXTENDS Integers, Sequences, FiniteSets, TLC

VARIABLES
    now,            \* the wall clock: [year, month, day, hour]
    ticks,          \* how often the wall clock has advanced
    globalTables,   \* what the free identifier `tables` of line 64 resolves to
    pc,             \* position of the parseAirQualityHtml call
    args,           \* arguments of the call in progress
    rows,           \* rows of the selected table (td texts of each tr)
    fechaIndex,     \* 0-based index of the Fecha header cell, -1 if none
    horaIndex,      \* 0-based index of the Hora header cell
    stationIndices, \* Map(stationName -> column index), in insertion order
    day,            \* zero-padded specificDay, "" when none
    current,        \* the clock reading taken before the row walk
    rowIndex,       \* 0-based index of the next row to walk
    data,           \* Observations accumulated so far
    caught,         \* whether the catch block of line 314 has run
    run,            \* 1 for a first call, 2 for its repetition on the same arguments
    first,          \* outcome and clock reading of the first call, when run = 2
    aggPc,          \* position of the processAirQualityData call
    aggInput,       \* argument of the last processAirQualityData call
    aggResult,      \* its return value
    catPc,          \* position of the getAirQualityCategory call
    catArgs,        \* its arguments
    catResult,      \* its return value
    catFirst,       \* the outcome of the call before, when the call is repeated
    fetchPc,        \* position of the fetchAirQualityData call
    fetchArgs,      \* its arguments
    fetchSent,      \* the query parameters of its proxy request
    fetchResponse,  \* the status of the proxy's response, 0 before there is one
    fetchFailure,   \* what made the call reject
    fetchResult     \* the value the call resolves with

vars == <<now, ticks, globalTables, pc, args, rows, fechaIndex, horaIndex,
          stationIndices, day, current, rowIndex, data, caught, run, first,
          aggPc, aggInput, aggResult, catPc, catArgs, catResult, catFirst,
          fetchPc, fetchArgs, fetchSent, fetchResponse, fetchFailure, fetchResult>>

parseVars == <<pc, args, rows, fechaIndex, horaIndex, stationIndices, day,
               current, rowIndex, data, caught, run, first>>

aggVars == <<aggPc, aggInput, aggResult>>

catVars == <<catPc, catArgs, catResult, catFirst>>

fetchVars == <<fetchPc, fetchArgs, fetchSent, fetchResponse, fetchFailure,
               fetchResult>>

-----------------------------------------------------------------------------
(* Bounds of the model *)

MaxDataRows == 2
MaxTicks == 1
MaxObs == 3

-----------------------------------------------------------------------------
(* Program constants *)

MinHtmlLength == 100
MaxHour == 23
MaxDayMagnitude == 31

-----------------------------------------------------------------------------
(* JavaScript text primitives *)

NaN == <<>>

CharAt(s, i) == SubSeq(s, i, i)

IsDigit(c) == c \in {"0", "1", "2", "3", "4", "5", "6", "7", "8", "9"}

DigitVal(c) ==
    CASE c = "0" -> 0 [] c = "1" -> 1 [] c = "2" -> 2 [] c = "3" -> 3
      [] c = "4" -> 4 [] c = "5" -> 5 [] c = "6" -> 6 [] c = "7" -> 7
      [] c = "8" -> 8 [] c = "9" -> 9

DigitChar(d) == CharAt("0123456789", d + 1)

IsSpace(c) == c = " "

UpperLetters == "ABCDEFGHIJKLMNOPQRSTUVWXYZ"
LowerLetters == "abcdefghijklmnopqrstuvwxyz"

LowerChar(c) ==
    IF \E i \in 1..26 : CharAt(UpperLetters, i) = c
    THEN CharAt(LowerLetters, CHOOSE i \in 1..26 : CharAt(UpperLetters, i) = c)
    ELSE c

UpperChar(c) ==
    IF \E i \in 1..26 : CharAt(LowerLetters, i) = c
    THEN CharAt(UpperLetters, CHOOSE i \in 1..26 : CharAt(LowerLetters, i) = c)
    ELSE c

RECURSIVE ToLowerCase(_)
ToLowerCase(s) ==
    IF s = "" THEN "" ELSE LowerChar(CharAt(s, 1)) \o ToLowerCase(Tail(s))

RECURSIVE ToUpperCase(_)
ToUpperCase(s) ==
    IF s = "" THEN "" ELSE UpperChar(CharAt(s, 1)) \o ToUpperCase(Tail(s))

RECURSIVE TrimStart(_)
TrimStart(s) ==
    IF s # "" /\ IsSpace(CharAt(s, 1)) THEN TrimStart(Tail(s)) ELSE s

RECURSIVE TrimEnd(_)
TrimEnd(s) ==
    IF s # "" /\ IsSpace(CharAt(s, Len(s)))
    THEN TrimEnd(SubSeq(s, 1, Len(s) - 1))
    ELSE s

Trim(s) == TrimEnd(TrimStart(s))

Includes(s, sub) ==
    \E i \in 1..(Len(s) - Len(sub) + 1) : SubSeq(s, i, i + Len(sub) - 1) = sub

RECURSIVE PadStart(_, _, _)
PadStart(s, n, c) == IF Len(s) >= n THEN s ELSE PadStart(c \o s, n, c)

\* index one past the maximal run of digits of s that starts at i
RECURSIVE RunEnd(_, _)
RunEnd(s, i) ==
    IF i <= Len(s) /\ IsDigit(CharAt(s, i)) THEN RunEnd(s, i + 1) ELSE i

RECURSIVE DigitsValue(_, _)
DigitsValue(s, acc) ==
    IF s = "" THEN acc
    ELSE DigitsValue(Tail(s), acc * 10 + DigitVal(CharAt(s, 1)))

\* parseInt(s): leading white space, an optional sign, the leading digits
ParseInt(s) ==
    LET t == TrimStart(s)
        neg == t # "" /\ CharAt(t, 1) = "-"
        u == IF t # "" /\ CharAt(t, 1) \in {"-", "+"} THEN Tail(t) ELSE t
        e == RunEnd(u, 1)
    IN  IF e = 1 THEN NaN
        ELSE <<(IF neg THEN -1 ELSE 1) * DigitsValue(SubSeq(u, 1, e - 1), 0)>>

RECURSIVE NatToString(_)
NatToString(n) ==
    IF n < 10 THEN DigitChar(n) ELSE NatToString(n \div 10) \o DigitChar(n % 10)

NumGt(a, b) == a # NaN /\ b # NaN /\ a[1] > b[1]
NumStrictEq(a, b) == a # NaN /\ b # NaN /\ a[1] = b[1]

\* text.match(/(\d+)/): the leftmost maximal run of digits, "" when none
MatchDigits(s) ==
    IF \E i \in 1..Len(s) : IsDigit(CharAt(s, i))
    THEN LET i == CHOOSE k \in 1..Len(s) :
                    /\ IsDigit(CharAt(s, k))
                    /\ \A j \in 1..(k - 1) : ~IsDigit(CharAt(s, j))
         IN  SubSeq(s, i, RunEnd(s, i) - 1)
    ELSE ""

IsDateSep(c) == c \in {"/", "-"}

\* the three groups of /(\d+)[\/\-](\d+)[\/\-](\d+)/ anchored at i, <<>> when
\* the pattern does not match there
DateMatchAt(s, i) ==
    LET e1 == RunEnd(s, i)
        e2 == RunEnd(s, e1 + 1)
        e3 == RunEnd(s, e2 + 1)
    IN  IF /\ e1 > i
           /\ e1 <= Len(s) /\ IsDateSep(CharAt(s, e1))
           /\ e2 > e1 + 1
           /\ e2 <= Len(s) /\ IsDateSep(CharAt(s, e2))
           /\ e3 > e2 + 1
        THEN <<SubSeq(s, i, e1 - 1), SubSeq(s, e1 + 1, e2 - 1),
               SubSeq(s, e2 + 1, e3 - 1)>>
        ELSE <<>>

\* fechaText.match(/(\d+)[\/\-](\d+)[\/\-](\d+)/): the leftmost match
MatchDate(s) ==
    IF \E i \in 1..Len(s) : DateMatchAt(s, i) # <<>>
    THEN DateMatchAt(s, CHOOSE i \in 1..Len(s) :
                            /\ DateMatchAt(s, i) # <<>>
                            /\ \A j \in 1..(i - 1) : DateMatchAt(s, j) = <<>>)
    ELSE <<>>

\* valueText.replace(/[^\d.]/g, '')
RECURSIVE StripNonNumeric(_)
StripNonNumeric(s) ==
    IF s = "" THEN ""
    ELSE (IF IsDigit(CharAt(s, 1)) \/ CharAt(s, 1) = "." THEN CharAt(s, 1) ELSE "")
         \o StripNonNumeric(Tail(s))

\* parseFloat of a text of digits and points, in tenths: the leading digits,
\* then a point and the digits after it; NaN when there is no digit at all
ParseFloat(s) ==
    LET e1 == RunEnd(s, 1)
        hasPoint == e1 <= Len(s) /\ CharAt(s, e1) = "."
        e2 == IF hasPoint THEN RunEnd(s, e1 + 1) ELSE e1
        intPart == SubSeq(s, 1, e1 - 1)
        fracPart == IF hasPoint THEN SubSeq(s, e1 + 1, e2 - 1) ELSE ""
    IN  IF intPart = "" /\ fracPart = "" THEN NaN
        ELSE <<DigitsValue(intPart, 0) * 10
               + (IF fracPart = "" THEN 0 ELSE DigitVal(CharAt(fracPart, 1)))>>

\* value.toString() of a non-negative number counted in tenths
NumberToString(v) ==
    NatToString(v \div 10)
    \o (IF v % 10 = 0 THEN "" ELSE "." \o DigitChar(v % 10))

-----------------------------------------------------------------------------
(* parseAirQualityHtml: the steps before the row walk *)

\* the loop of lines 95-104: the first table, replaced by a later one only
\* when that one has strictly more rows; returns the 1-based table index
RECURSIVE SelectDataTableFrom(_, _, _)
SelectDataTableFrom(tables, i, best) ==
    IF i > Len(tables) THEN best
    ELSE SelectDataTableFrom(tables, i + 1,
            IF Len(tables[i]) > Len(tables[best]) THEN i ELSE best)

\* the last of the tables of the greatest row count
SelectDataTable_LastGreatest(tables) ==
    CHOOSE i \in 1..Len(tables) :
        /\ \A j \in 1..Len(tables) : Len(tables[j]) <= Len(tables[i])
        /\ \A j \in (i + 1)..Len(tables) : Len(tables[j]) < Len(tables[i])

SelectDataTable(tables) == SelectDataTableFrom(tables, 2, 1)

\* headerTexts.findIndex(text => text.toLowerCase() === word ||
\*                                text.toLowerCase().includes(word)), 0-based
FindIndex(headerTexts, word) ==
    LET hit(i) == \/ ToLowerCase(headerTexts[i]) = word
                  \/ Includes(ToLowerCase(headerTexts[i]), word)
    IN  IF \E i \in 1..Len(headerTexts) : hit(i)
        THEN (CHOOSE i \in 1..Len(headerTexts) :
                  hit(i) /\ \A j \in 1..(i - 1) : ~hit(j)) - 1
        ELSE -1

\* every column kept as an entry of its own
MapSet_Append(m, name, col) == Append(m, [name |-> name, col |-> col])

\* Map.prototype.set: a new key is appended, a known key keeps its place and
\* takes the new value
MapSet(m, name, col) ==
    IF \E k \in 1..Len(m) : m[k].name = name
    THEN [k \in 1..Len(m) |->
            IF m[k].name = name THEN [name |-> name, col |-> col] ELSE m[k]]
    ELSE Append(m, [name |-> name, col |-> col])

\* the loop of lines 165-174 from 0-based column i on
RECURSIVE StationIndicesFrom(_, _, _, _)
StationIndicesFrom(headerTexts, i, specificStation, m) ==
    IF i >= Len(headerTexts) THEN m
    ELSE LET stationName == Trim(headerTexts[i + 1])
         IN  StationIndicesFrom(headerTexts, i + 1, specificStation,
                IF stationName = "" THEN m
                ELSE IF specificStation # "" /\ stationName # specificStation
                     THEN m
                     ELSE MapSet(m, stationName, i))

\* line 179: specificDay ? specificDay.toString().padStart(2, '0') : null
InitialDay(specificDay) ==
    IF specificDay # "" THEN PadStart(specificDay, 2, "0") ELSE ""

\* lines 182-186: the one reading of the wall clock
ReadClock(clock) ==
    [year |-> clock.year,
     month |-> PadStart(NatToString(clock.month), 2, "0"),
     day |-> PadStart(NatToString(clock.day), 2, "0"),
     hour |-> clock.hour]

NoClock == [year |-> 0, month |-> "", day |-> "", hour |-> 0]

IsPm25(parameter) == parameter = "pm25" \/ parameter = "pm25nowCast"

\* lines 130-137: whether one of the rows 2..4 has at least two cells, so
\* that line 134 assigns to the constant headerCells
AltHeaderFound(rs) ==
    \E i \in 2..4 : i < Len(rs) /\ Len(rs[i + 1]) >= 2

Locals(p, rs, f, h, st, d, cur, c) ==
    [pc |-> p, rows |-> rs, fechaIndex |-> f, horaIndex |-> h,
     stationIndices |-> st, day |-> d, current |-> cur, caught |-> c]

Threw == Locals("threw", <<>>, -1, -1, <<>>, "", NoClock, FALSE)
ReturnedEmpty == Locals("returned", <<>>, -1, -1, <<>>, "", NoClock, FALSE)
CaughtEmpty == Locals("returned", <<>>, -1, -1, <<>>, "", NoClock, TRUE)

\* lines 59-186: everything up to the row walk.  The statements of lines
\* 62-66 stand before the try block: html.substring raises for a null html,
\* and `tables` is not declared in that scope (the const of line 82 belongs to
\* the try block), so the identifier resolves in the global scope and raises
\* a ReferenceError when nothing is bound there.
ParseSetup(a, clock, gt) ==
    IF a.html.isNull THEN Threw
    ELSE IF gt = "unbound" THEN Threw
    ELSE IF a.html.length < MinHtmlLength THEN ReturnedEmpty
    ELSE IF Len(a.html.tables) = 0 THEN ReturnedEmpty
    ELSE
      LET rs == a.html.tables[SelectDataTable(a.html.tables)]
      IN  IF Len(rs) < 2 THEN ReturnedEmpty
          ELSE
            LET headerCells == rs[2]
            IN  IF Len(headerCells) < 2 /\ ~IsPm25(a.parameter) THEN ReturnedEmpty
                ELSE IF Len(headerCells) < 2 /\ AltHeaderFound(rs) THEN CaughtEmpty
                ELSE
                  LET headerTexts == [i \in 1..Len(headerCells) |-> Trim(headerCells[i])]
                      f == FindIndex(headerTexts, "fecha")
                      h == FindIndex(headerTexts, "hora")
                  IN  IF h = -1 THEN ReturnedEmpty
                      ELSE Locals("walk", rs, f, h,
                                  StationIndicesFrom(headerTexts, h + 1,
                                                     a.specificStation, <<>>),
                                  InitialDay(a.specificDay), ReadClock(clock), FALSE)

-----------------------------------------------------------------------------
(* parseAirQualityHtml: one row of the walk, lines 189-310 *)

\* lines 198-213: the day of the row from its Fecha cell, else the call's day
RowDay(cells, f, d) ==
    IF f # -1 /\ f < Len(cells)
    THEN LET dateMatch == MatchDate(Trim(cells[f + 1]))
         IN  IF dateMatch = <<>> THEN d
             ELSE IF NumGt(ParseInt(dateMatch[3]), <<MaxDayMagnitude>>)
                  THEN PadStart(dateMatch[1], 2, "0")
             ELSE IF NumGt(ParseInt(dateMatch[1]), <<MaxDayMagnitude>>)
                  THEN PadStart(dateMatch[3], 2, "0")
             ELSE PadStart(dateMatch[2], 2, "0")
    ELSE d

\* lines 215-220: a row without a day takes the specificDay, else is skipped
ResolvedDay(rowDay, specificDay) ==
    IF rowDay = "" /\ specificDay # "" THEN PadStart(specificDay, 2, "0")
    ELSE rowDay

\* lines 223-233: the first integer token of the Hora cell, NaN when none
RowHour(cells, h) ==
    IF h < Len(cells)
    THEN LET hourMatch == MatchDigits(Trim(cells[h + 1]))
         IN  IF hourMatch = "" THEN NaN ELSE ParseInt(hourMatch)
    ELSE NaN

\* the hour test without its upper bound
HourInvalid_NoUpperBound(hour) == hour = NaN \/ hour[1] < 0

\* line 236
HourInvalid(hour) == hour = NaN \/ hour[1] < 0 \/ hour[1] > MaxHour

\* lines 241: the specificHour filter
HourFiltered(specificHour, hour) ==
    specificHour # <<>> /\ ~NumStrictEq(specificHour, hour)

\* lines 246-248
IsCurrentDay(year, month, rowDay, cur) ==
    /\ NumStrictEq(ParseInt(year), <<cur.year>>)
    /\ month = cur.month
    /\ rowDay = cur.day

\* lines 250-252
IsFutureDay(year, month, rowDay, cur) ==
    \/ NumGt(ParseInt(year), <<cur.year>>)
    \/ /\ NumStrictEq(ParseInt(year), <<cur.year>>)
       /\ NumGt(ParseInt(month), ParseInt(cur.month))
    \/ /\ NumStrictEq(ParseInt(year), <<cur.year>>)
       /\ month = cur.month
       /\ NumGt(ParseInt(rowDay), ParseInt(cur.day))

\* line 254
SkipFuture(year, month, rowDay, hour, cur) ==
    \/ IsFutureDay(year, month, rowDay, cur)
    \/ IsCurrentDay(year, month, rowDay, cur) /\ hour[1] > cur.hour

MissingTokens == {"", "-", "n/d", "nr", "nv", "**", "na", "n/a"}

\* line 272: the outer test of the cell text, which must be non-empty
CellHasText(valueText) == valueText # ""

\* the token test of the earlier revisions: upper-case tokens only
IsMissingToken_CaseSensitive(valueText) ==
    valueText \in {"", "-", "N/D", "NR", "NV", "**"}

\* line 274
IsMissingToken(valueText) == ToLowerCase(valueText) \in MissingTokens

Observation(date, hour, value, rawValue, station, parameter) ==
    [date |-> date, hour |-> hour, value |-> value, rawValue |-> rawValue,
     station |-> station, parameter |-> parameter]

\* the date with the day before the month
ObservationDate_DayFirst(year, month, rowDay) ==
    year \o "-" \o rowDay \o "-" \o month

\* lines 277 and 296: `${year}-${month}-${rowDay}`
ObservationDate(year, month, rowDay) ==
    year \o "-" \o month \o "-" \o rowDay

\* a cell without a number kept as an Observation without a value
CellObservations_KeepUnparsed(cells, st, a, rowDay, formattedHour) ==
    IF st.col >= Len(cells) THEN <<>>
    ELSE
      LET valueText == Trim(cells[st.col + 1])
          date == ObservationDate(a.year, a.month, rowDay)
      IN  IF ~CellHasText(valueText) THEN <<>>
          ELSE IF IsMissingToken(valueText)
          THEN <<Observation(date, formattedHour, <<>>, ToUpperCase(valueText),
                             st.name, a.parameter)>>
          ELSE
            LET cleanText == StripNonNumeric(valueText)
                value == IF cleanText = "" THEN NaN ELSE ParseFloat(cleanText)
            IN  <<Observation(date, formattedHour, value,
                              IF value = NaN THEN valueText
                              ELSE NumberToString(value[1]),
                              st.name, a.parameter)>>

\* lines 264-308: the Observations of one station cell, none or one
CellObservations(cells, st, a, rowDay, formattedHour) ==
    IF st.col >= Len(cells) THEN <<>>
    ELSE
      LET valueText == Trim(cells[st.col + 1])
          date == ObservationDate(a.year, a.month, rowDay)
      IN  IF ~CellHasText(valueText) THEN <<>>
          ELSE IF IsMissingToken(valueText)
          THEN <<Observation(date, formattedHour, <<>>, ToUpperCase(valueText),
                             st.name, a.parameter)>>
          ELSE
            LET cleanText == StripNonNumeric(valueText)
                value == IF cleanText = "" THEN NaN ELSE ParseFloat(cleanText)
            IN  IF value = NaN THEN <<>>
                ELSE <<Observation(date, formattedHour, value,
                                   NumberToString(value[1]), st.name, a.parameter)>>

RECURSIVE StationObservations(_, _, _, _, _, _)
StationObservations(cells, stations, k, a, rowDay, formattedHour) ==
    IF k > Len(stations) THEN <<>>
    ELSE CellObservations(cells, stations[k], a, rowDay, formattedHour)
         \o StationObservations(cells, stations, k + 1, a, rowDay, formattedHour)

\* line 260
FormatHour(hour) == PadStart(NatToString(hour[1]), 2, "0")

\* lines 193-257: whether the row is skipped before its station cells are read
RowSkipped(cells, a, f, h, d, cur) ==
    IF Len(cells) <= h + 1 THEN TRUE
    ELSE
      LET rowDay == ResolvedDay(RowDay(cells, f, d), a.specificDay)
          hour == RowHour(cells, h)
      IN  IF rowDay = "" THEN TRUE
          ELSE IF HourInvalid(hour) THEN TRUE
          ELSE IF HourFiltered(a.specificHour, hour) THEN TRUE
          ELSE SkipFuture(a.year, a.month, rowDay, hour, cur)

\* the body of the loop of line 189 for one row: what it appends to data
RowObservations(cells, a, f, h, stations, d, cur) ==
    IF RowSkipped(cells, a, f, h, d, cur) THEN <<>>
    ELSE StationObservations(cells, stations, 1, a,
                             ResolvedDay(RowDay(cells, f, d), a.specificDay),
                             FormatHour(RowHour(cells, h)))

\* the clock read again for every row
RowClock_Reread(cur, clock) == ReadClock(clock)

\* lines 246-254: every row is compared with currentYear, currentMonth,
\* currentDay and currentHour, the constants of lines 183-186
RowClock(cur, clock) == cur

\* the catch block of the earliest revision, which throws the error again
AfterCatch_Rethrow(collected) == [pc |-> "threw", data |-> collected]

\* lines 314-318: the catch block logs the error and the function goes on to
\* its last statement, return data
AfterCatch(collected) == [pc |-> "returned", data |-> collected]

\* an array shared by all calls instead of a fresh one
InitialData_Shared(previous) == previous

\* line 59: const data = [], a fresh array in every call
InitialData(previous) == <<>>

-----------------------------------------------------------------------------
(* processAirQualityData, lines 321-373 *)

\* some of the names every object inherits from Object.prototype.  stationData
\* and categories are plain objects, so a lookup of one of these names finds
\* the inherited member.
InheritedNames == {"constructor", "toString", "valueOf", "hasOwnProperty"}

\* lines 330-333: for a station of an inherited name the test of line 330
\* finds the inherited member, no array is stored, and the push of line 333
\* raises a TypeError that nothing catches
GroupingRaises(items) ==
    \E i \in 1..Len(items) : items[i].station \in InheritedNames

\* lines 329-334: the item joins the group of its station, a new group last
PushToStation(groups, item) ==
    IF \E g \in 1..Len(groups) : groups[g].station = item.station
    THEN [g \in 1..Len(groups) |->
            IF groups[g].station = item.station
            THEN [groups[g] EXCEPT !.items = Append(@, item)]
            ELSE groups[g]]
    ELSE Append(groups, [station |-> item.station, items |-> <<item>>])

RECURSIVE GroupByStation(_, _, _)
GroupByStation(items, i, groups) ==
    IF i > Len(items) THEN groups
    ELSE GroupByStation(items, i + 1, PushToStation(groups, items[i]))

\* the test of line 341 left out, as in the earlier revisions
Contributes_All(item) == TRUE

\* line 341: a null value is skipped
Contributes(item) == item.value # <<>>

\* the date alone as the key
AverageKey_DateOnly(item) == item.date \o " "

\* line 343
AverageKey(item) == item.date \o " " \o item.hour

\* sum + item.value, where a null operand counts as 0
AddValue(sum, value) == sum + (IF value = <<>> THEN 0 ELSE value[1])

\* lines 344-352: the entry of the key is created or updated in place
AccumulateItem(entries, item) ==
    LET key == AverageKey(item)
    IN  IF \E e \in 1..Len(entries) : entries[e].key = key
        THEN [e \in 1..Len(entries) |->
                IF entries[e].key = key
                THEN [key |-> key,
                      sum |-> AddValue(entries[e].sum, item.value),
                      count |-> entries[e].count + 1]
                ELSE entries[e]]
        ELSE Append(entries, [key |-> key, sum |-> AddValue(0, item.value),
                              count |-> 1])

RECURSIVE Accumulate(_, _, _)
Accumulate(items, i, entries) ==
    IF i > Len(items) THEN entries
    ELSE Accumulate(items, i + 1,
                    IF Contributes(items[i]) THEN AccumulateItem(entries, items[i])
                    ELSE entries)

\* key.split(' '): the parts of the key between its spaces
RECURSIVE SplitSpace(_, _, _)
SplitSpace(s, part, parts) ==
    IF s = "" THEN Append(parts, part)
    ELSE IF CharAt(s, 1) = " " THEN SplitSpace(Tail(s), "", Append(parts, part))
    ELSE SplitSpace(Tail(s), part \o CharAt(s, 1), parts)

\* whether sum / count lies half way between two tenths; the digit toFixed
\* chooses there depends on the binary value of the quotient
IsTie(sum, count) == 2 * (sum % count) = count

\* (sum / count).toFixed(1), in tenths: the nearest tenth, and at a tie the
\* lower or the upper one as `up` says
ToFixed1(sum, count, up) ==
    LET q == sum \div count
        r == sum % count
        v == IF 2 * r > count \/ (2 * r = count /\ up) THEN q + 1 ELSE q
    IN  NatToString(v \div 10) \o "." \o DigitChar(v % 10)

\* lines 355-362: one HourlyAverage of an entry
AverageOf(entry, up) ==
    LET parts == SplitSpace(entry.key, "", <<>>)
    IN  [date |-> parts[1],
         hour |-> IF Len(parts) >= 2 THEN parts[2] ELSE "",
         value |-> ParseFloat(ToFixed1(entry.sum, entry.count, up)),
         stationCount |-> entry.count]

\* the order of the characters of dates under localeCompare
Collation == " -/0123456789"

CharRank(c) == CHOOSE i \in 1..Len(Collation) : CharAt(Collation, i) = c

\* a.localeCompare(b): negative, zero or positive
RECURSIVE LocaleCompare(_, _)
LocaleCompare(a, b) ==
    IF a = "" /\ b = "" THEN 0
    ELSE IF a = "" THEN -1
    ELSE IF b = "" THEN 1
    ELSE IF CharAt(a, 1) = CharAt(b, 1) THEN LocaleCompare(Tail(a), Tail(b))
    ELSE IF CharRank(CharAt(a, 1)) < CharRank(CharAt(b, 1)) THEN -1 ELSE 1

\* the hours compared as texts
CompareAverages_HourText(a, b) ==
    IF a.date # b.date THEN LocaleCompare(a.date, b.date)
    ELSE LocaleCompare(a.hour, b.hour)

\* lines 363-367: the comparator; a NaN result counts as 0
CompareAverages(a, b) ==
    IF a.date # b.date THEN LocaleCompare(a.date, b.date)
    ELSE LET x == ParseInt(a.hour)
             y == ParseInt(b.hour)
         IN  IF x = NaN \/ y = NaN THEN 0 ELSE x[1] - y[1]

\* Array.prototype.sort is stable: x goes behind the last element that does
\* not come after it
RECURSIVE InsertSorted(_, _)
InsertSorted(sorted, x) ==
    IF sorted = <<>> THEN <<x>>
    ELSE IF CompareAverages(sorted[Len(sorted)], x) <= 0 THEN Append(sorted, x)
    ELSE Append(InsertSorted(SubSeq(sorted, 1, Len(sorted) - 1), x),
                sorted[Len(sorted)])

RECURSIVE SortAverages(_, _, _)
SortAverages(averages, i, sorted) ==
    IF i > Len(averages) THEN sorted
    ELSE SortAverages(averages, i + 1, InsertSorted(sorted, averages[i]))

\* the tie decisions toFixed can take for the entries
TieChoices(entries) ==
    { ups \in [1..Len(entries) -> BOOLEAN] :
        \A e \in 1..Len(entries) :
            ups[e] => IsTie(entries[e].sum, entries[e].count) }

\* processAirQualityData(data) under the tie decisions `ups`
ProcessWith(input, ups) ==
    LET entries == Accumulate(input, 1, <<>>)
        averages == [e \in 1..Len(entries) |-> AverageOf(entries[e], ups[e])]
    IN  [stations |-> GroupByStation(input, 1, <<>>),
         hourlyAverages |-> SortAverages(averages, 1, <<>>)]

EmptyResult == [stations |-> <<>>, hourlyAverages |-> <<>>]

\* the return values processAirQualityData(data) can have
ProcessResults(input) ==
    IF Len(input) = 0 THEN {EmptyResult}
    ELSE { ProcessWith(input, ups) : ups \in TieChoices(Accumulate(input, 1, <<>>)) }

-----------------------------------------------------------------------------
(* getAirQualityCategory, lines 376-444.  A value is a finite number held in *)
(* tenths, NaN, Infinity or -Infinity.                                       *)

Finite(tenths) == [kind |-> "finite", tenths |-> tenths]
PlusInfinity == [kind |-> "+inf", tenths |-> 0]
MinusInfinity == [kind |-> "-inf", tenths |-> 0]
NotANumber == [kind |-> "nan", tenths |-> 0]

\* value < max
LessEq_Strict(value, max) ==
    IF value.kind = "nan" \/ max.kind = "nan" THEN FALSE
    ELSE IF value.kind = max.kind /\ value.kind # "finite" THEN FALSE
    ELSE IF value.kind = "-inf" \/ max.kind = "+inf" THEN TRUE
    ELSE IF value.kind = "+inf" \/ max.kind = "-inf" THEN FALSE
    ELSE value.tenths < max.tenths

\* line 434: value <= threshold.max
LessEq(value, max) ==
    IF value.kind = "nan" \/ max.kind = "nan" THEN FALSE
    ELSE IF value.kind = "-inf" \/ max.kind = "+inf" THEN TRUE
    ELSE IF value.kind = "+inf" \/ max.kind = "-inf" THEN FALSE
    ELSE value.tenths <= max.tenths

\* the six tiers of one pollutant: the categories and colors are the same in
\* every table, the first five bounds are the table's own
Thresholds(good, moderate, sensitive, unhealthy, veryUnhealthy) ==
    << [max |-> Finite(good), category |-> "Good", color |-> "#00e400"],
       [max |-> Finite(moderate), category |-> "Moderate", color |-> "#ffff00"],
       [max |-> Finite(sensitive), category |-> "Unhealthy for Sensitive Groups",
        color |-> "#ff7e00"],
       [max |-> Finite(unhealthy), category |-> "Unhealthy", color |-> "#ff0000"],
       [max |-> Finite(veryUnhealthy), category |-> "Very Unhealthy",
        color |-> "#99004c"],
       [max |-> PlusInfinity, category |-> "Hazardous", color |-> "#7e0023"] >>

CanonicalCodes == {"o3", "pm10", "pm25", "nox", "co", "so2"}

\* lines 378-427: the categories object, bounds in tenths
Categories ==
    [code \in CanonicalCodes |->
        CASE code = "o3" -> Thresholds(700, 950, 1540, 2040, 4040)
          [] code = "pm10" -> Thresholds(540, 1540, 2540, 3540, 4240)
          [] code = "pm25" -> Thresholds(120, 354, 554, 1504, 2504)
          [] code = "nox" -> Thresholds(530, 1000, 3600, 6490, 12490)
          [] code = "co" -> Thresholds(44, 94, 124, 154, 304)
          [] code = "so2" -> Thresholds(350, 750, 1850, 3040, 6040)]

CategoryResult(p, category, color) ==
    [pc |-> p, category |-> category, color |-> color]

NoCategory == CategoryResult("idle", "", "")
CategoryRaised == CategoryResult("threw", "", "")

\* lines 433-443: the first threshold the value does not exceed, or the
\* fallback
RECURSIVE ScanThresholds(_, _, _)
ScanThresholds(thresholds, i, value) ==
    IF i > Len(thresholds) THEN CategoryResult("returned", "Unknown", "#808080")
    ELSE IF LessEq(value, thresholds[i].max)
         THEN CategoryResult("returned", thresholds[i].category, thresholds[i].color)
         ELSE ScanThresholds(thresholds, i + 1, value)

\* line 430: categories[parameter] || categories.o3.  A parameter of an
\* inherited name finds the inherited member, which is truthy and not
\* iterable, so the for...of of line 433 raises a TypeError.
GetAirQualityCategory(parameter, value) ==
    IF parameter \in CanonicalCodes
    THEN ScanThresholds(Categories[parameter], 1, value)
    ELSE IF parameter \in InheritedNames THEN CategoryRaised
    ELSE ScanThresholds(Categories["o3"], 1, value)

-----------------------------------------------------------------------------
(* The inputs of the model: markup as the tables a DOM parser finds in it   *)
(* (each table its tr rows, each row the texts of its td cells), and the    *)
(* requests made of it.  The clock starts on 2025-03-05 at 10 h.            *)

RECURSIVE SeqsUpTo(_, _)
SeqsUpTo(S, n) ==
    IF n = 0 THEN {<<>>}
    ELSE LET shorter == SeqsUpTo(S, n - 1)
         IN  shorter \cup {Append(s, x) : s \in shorter, x \in S}

TitleRow == <<"Concentraciones horarias">>

HeaderFechaHora == <<"Fecha", "Hora", "ACO", "MER">>
RowsFechaHora ==
    { <<"05/03/2025", "10", "12", "NR">>,
      <<"2025/03/05", "11", " 7.5 ", "">>,
      <<"005/03/2025", "23", "n/d", ".">>,
      <<"06-03-2025", "Hora 7", "**", "abc">>,
      <<"3/4/05", "08", "-", "1.2.3">>,
      <<"sin fecha", "9", " N/A ", "2">> }

HeaderHoraFecha == <<"Hora", "Fecha", "ACO">>
RowsHoraFecha ==
    { <<"x", "05/03/2025", "12">>,
      <<"24", "2025/03/04", "NR">>,
      <<"08", "03/2025/05", "-">> }

HeaderHora == <<" HORA local ", "ACO", "", "ACO">>
RowsHora ==
    { <<"10", "NR", "2", "3">>,
      <<"7 h", "5">> }

HeaderNoHora == <<"Fecha", "ACO", "MER">>
HeaderOneCell == <<"Hora">>
RowsOneCell == { <<"10">>, <<"10", "12">> }

TablesOf(header, rowSet) ==
    { <<TitleRow, header>> \o rs : rs \in SeqsUpTo(rowSet, MaxDataRows) }

DataTables ==
    TablesOf(HeaderFechaHora, RowsFechaHora)
    \cup TablesOf(HeaderHoraFecha, RowsHoraFecha)
    \cup TablesOf(HeaderHora, RowsHora)
    \cup TablesOf(HeaderOneCell, RowsOneCell)
    \cup { <<TitleRow, HeaderNoHora, <<"05/03/2025", "1", "2">> >>, <<TitleRow>> }

LayoutTable == << <<"Inicio", "Calidad del aire">> >>

\* tables of three, four and four rows
ThreeRows == <<TitleRow, HeaderHoraFecha, <<"08", "03/2025/05", "-">> >>
FourRows == <<TitleRow, HeaderFechaHora, <<"05/03/2025", "10", "12", "NR">>,
              <<"2025/03/05", "11", " 7.5 ", "">> >>
FourRowsToo == <<TitleRow, HeaderHora, <<"10", "NR", "2", "3">>, <<"7 h", "5">> >>

\* documents with the largest table first, in the middle, and tied
SeveralTables ==
    { <<LayoutTable, ThreeRows, FourRows, FourRowsToo>>,
      <<FourRowsToo, FourRows>>,
      <<FourRows, ThreeRows, LayoutTable>> }

\* tables whose header is the first row, and the third row behind a row of
\* two cells and behind a row of one cell
HeaderElsewhere ==
    { <<HeaderFechaHora, <<"05/03/2025", "10", "12", "NR">>,
        <<"05/03/2025", "09", "8", "7">> >>,
      << <<"Calidad del aire">>, <<"Zona", "Centro">>, HeaderFechaHora,
        <<"05/03/2025", "10", "12", "NR">> >>,
      << <<"Calidad del aire">>, <<"PM2.5">>, HeaderFechaHora,
        <<"05/03/2025", "10", "12", "NR">> >> }

Markup(isNull, length, tables) ==
    [isNull |-> isNull, length |-> length, tables |-> tables]

Markups ==
    { Markup(TRUE, 0, <<>>),                      \* null
      Markup(FALSE, 0, <<>>),                     \* the empty text
      Markup(FALSE, 60, <<LayoutTable>>),         \* shorter than 100 characters
      Markup(FALSE, 2000, <<>>) }                 \* a page without tables
    \cup { Markup(FALSE, 2000, <<LayoutTable, tb>>) : tb \in DataTables }
    \cup { Markup(FALSE, 2000, tbs) : tbs \in SeveralTables }
    \cup { Markup(FALSE, 2000, <<LayoutTable, tb>>) : tb \in HeaderElsewhere }

Request(parameter, year, month, specificDay, specificHour, specificStation) ==
    [parameter |-> parameter, year |-> year, month |-> month,
     specificDay |-> specificDay, specificHour |-> specificHour,
     specificStation |-> specificStation]

Requests ==
    { Request("o3", "2025", "03", "", <<>>, ""),
      Request("o3", "2024", "03", "", <<>>, ""),
      Request("o3", "2025", "04", "", <<>>, ""),
      Request("o3", "2025", "03", "5", <<>>, ""),
      Request("pm25", "2025", "03", "005", <<>>, ""),
      Request("o3", "2025", "03", "", <<10>>, ""),
      Request("o3", "2025", "03", "", <<>>, "ACO") }

Args(html, q) ==
    [html |-> html, parameter |-> q.parameter, year |-> q.year, month |-> q.month,
     specificDay |-> q.specificDay, specificHour |-> q.specificHour,
     specificStation |-> q.specificStation]

NoArgs == Args(Markup(TRUE, 0, <<>>), Request("", "", "", "", <<>>, ""))

NoFirst == [pc |-> "none", data |-> <<>>, current |-> NoClock]


NoRequest == Request("", "", "", "", <<>>, "")

NoCategoryArgs == [parameter |-> "", value |-> NotANumber]

InitialClock == [year |-> 2025, month |-> 3, day |-> 5, hour |-> 10]

-----------------------------------------------------------------------------
(* fetchAirQualityData, lines 8-55 *)

\* the code sent upstream as it is
WireCode_Unchanged(parameter) == parameter

\* lines 14-20: paramValue
WireCode(parameter) == IF parameter = "pm25" THEN "pm2" ELSE parameter

\* lines 30-32: if (value) params.append(name, value)
AppendIf(params, name, present, value) ==
    IF present THEN Append(params, <<name, value>>) ELSE params

\* lines 22-32: the query of the proxy request; null, '' and 0 are falsy
QueryParams(q) ==
    LET base == << <<"qtipo", "HORARIOS">>, <<"parametro", WireCode(q.parameter)>>,
                   <<"anio", q.year>>, <<"qmes", q.month>> >>
        withDay == AppendIf(base, "dia", q.specificDay # "", q.specificDay)
        withHour == AppendIf(withDay, "hora",
                             q.specificHour # NaN /\ q.specificHour # <<0>>,
                             IF q.specificHour = NaN THEN ""
                             ELSE NatToString(q.specificHour[1]))
    IN  AppendIf(withHour, "qestacion", q.specificStation # "", q.specificStation)

\* every status counts as a success
ResponseOk_Always(status) == TRUE

\* response.ok of line 41: a status from 200 to 299
ResponseOk(status) == status >= 200 /\ status <= 299

\* line 48: parseAirQualityHtml(html, parameter, year, month, day)
ParserArgs(html, q) ==
    Args(html, Request(q.parameter, q.year, q.month, q.specificDay, <<>>, ""))

-----------------------------------------------------------------------------
(* The state machine of the extractor *)

Init ==
    /\ now = InitialClock
    /\ ticks = 0
    /\ globalTables \in {"unbound", "bound"}
    /\ pc = "idle"
    /\ args = NoArgs
    /\ rows = <<>>
    /\ fechaIndex = -1
    /\ horaIndex = -1
    /\ stationIndices = <<>>
    /\ day = ""
    /\ current = NoClock
    /\ rowIndex = 0
    /\ data = <<>>
    /\ caught = FALSE
    /\ run = 1
    /\ first = NoFirst
    /\ aggPc = "idle"
    /\ aggInput = <<>>
    /\ aggResult = EmptyResult
    /\ catPc = "idle"
    /\ catArgs = NoCategoryArgs
    /\ catResult = NoCategory
    /\ catFirst = NoCategory
    /\ fetchPc = "idle"
    /\ fetchArgs = NoRequest
    /\ fetchSent = <<>>
    /\ fetchResponse = 0
    /\ fetchFailure = ""
    /\ fetchResult = <<>>

\* the wall clock advances by one hour
Tick ==
    /\ ticks < MaxTicks
    /\ ticks' = ticks + 1
    /\ now' = IF now.hour = 23
              THEN [now EXCEPT !.day = now.day + 1, !.hour = 0]
              ELSE [now EXCEPT !.hour = now.hour + 1]
    /\ UNCHANGED <<globalTables, parseVars, aggVars, catVars, fetchVars>>

Enter(a) ==
    \E l \in {ParseSetup(a, now, globalTables)} :
        /\ args' = a
        /\ pc' = l.pc
        /\ rows' = l.rows
        /\ fechaIndex' = l.fechaIndex
        /\ horaIndex' = l.horaIndex
        /\ stationIndices' = l.stationIndices
        /\ day' = l.day
        /\ current' = l.current
        /\ caught' = l.caught
        /\ rowIndex' = 2
        /\ data' = InitialData(data)

\* parseAirQualityHtml(html, parameter, year, month, specificDay,
\* specificHour, specificStation) is called and runs up to the row walk
ParseCall ==
    /\ pc = "idle"
    /\ \E html \in Markups, q \in Requests : Enter(Args(html, q))
    /\ run' = 1
    /\ first' = NoFirst
    /\ UNCHANGED <<now, ticks, globalTables, aggVars, catVars, fetchVars>>

\* one iteration of the loop of line 189
ParseRow ==
    /\ pc = "walk"
    /\ rowIndex < Len(rows)
    /\ data' = data \o RowObservations(rows[rowIndex + 1], args, fechaIndex,
                                        horaIndex, stationIndices, day,
                                        RowClock(current, now))
    /\ rowIndex' = rowIndex + 1
    /\ UNCHANGED <<now, ticks, globalTables, pc, args, rows, fechaIndex,
                   horaIndex, stationIndices, day, current, caught, run, first,
                   aggVars, catVars, fetchVars>>

\* a statement of the loop body raises (the host cannot grow the array, a DOM
\* accessor fails) before the row, or after some of its cells, have been
\* emitted; the catch of line 314 takes over
ParseFault ==
    /\ pc = "walk"
    /\ rowIndex < Len(rows)
    /\ \E emitted \in {RowObservations(rows[rowIndex + 1], args, fechaIndex,
                                       horaIndex, stationIndices, day,
                                       RowClock(current, now))} :
         \E n \in 0..Len(emitted) :
            /\ pc' = AfterCatch(data \o SubSeq(emitted, 1, n)).pc
            /\ data' = AfterCatch(data \o SubSeq(emitted, 1, n)).data
    /\ caught' = TRUE
    /\ UNCHANGED <<now, ticks, globalTables, args, rows, fechaIndex, horaIndex,
                   stationIndices, day, current, rowIndex, run, first,
                   aggVars, catVars, fetchVars>>

\* the loop is over: line 318 returns data
ParseReturn ==
    /\ pc = "walk"
    /\ rowIndex >= Len(rows)
    /\ pc' = "returned"
    /\ UNCHANGED <<now, ticks, globalTables, args, rows, fechaIndex, horaIndex,
                   stationIndices, day, current, rowIndex, data, caught, run,
                   first, aggVars, catVars, fetchVars>>

\* the caller repeats the call on the same arguments
ParseAgain ==
    /\ pc \in {"returned", "threw"}
    /\ run = 1
    /\ first' = [pc |-> pc, data |-> data, current |-> current]
    /\ run' = 2
    /\ Enter(args)
    /\ UNCHANGED <<now, ticks, globalTables, aggVars, catVars, fetchVars>>

\* the caller is done with the result
ParseForget ==
    /\ pc \in {"returned", "threw"}
    /\ pc' = "idle"
    /\ args' = NoArgs
    /\ rows' = <<>>
    /\ fechaIndex' = -1
    /\ horaIndex' = -1
    /\ stationIndices' = <<>>
    /\ day' = ""
    /\ current' = NoClock
    /\ rowIndex' = 0
    /\ data' = <<>>
    /\ caught' = FALSE
    /\ run' = 1
    /\ first' = NoFirst
    /\ UNCHANGED <<now, ticks, globalTables, aggVars, catVars, fetchVars>>

Next ==
    \/ Tick
    \/ ParseCall
    \/ ParseRow
    \/ ParseReturn
    \/ ParseAgain
    \/ ParseForget

Spec == Init /\ [][Next]_vars

\* the extractor on a host where statements of the row walk can raise
NextFault ==
    \/ ParseCall
    \/ ParseRow
    \/ ParseFault
    \/ ParseReturn
    \/ ParseForget

SpecFault == Init /\ [][NextFault]_vars

-----------------------------------------------------------------------------
(* The state machine of the aggregator *)

ObservationUniverse ==
    { Observation(k[1], k[2], v, IF v = <<>> THEN "NR" ELSE NumberToString(v[1]),
                  s, "o3") :
        k \in { <<"2025-03-01", "9">>, <<"2025-03-01", "10">>,
                <<"2025-03-02", "08">> },
        v \in { <<>>, <<100>>, <<201>> },
        s \in { "ACO", "MER" } }
    \cup { Observation("2025-03-01", "9", <<100>>, "10", "constructor", "o3") }

AggInputs == SeqsUpTo(ObservationUniverse, MaxObs)

\* processAirQualityData(data) is called and returns or raises
Process ==
    /\ aggPc = "idle"
    /\ \E input \in AggInputs :
         /\ aggInput' = input
         /\ IF GroupingRaises(input)
            THEN /\ aggPc' = "threw"
                 /\ aggResult' = EmptyResult
            ELSE /\ aggPc' = "returned"
                 /\ \E result \in ProcessResults(input) : aggResult' = result
    /\ UNCHANGED <<now, ticks, globalTables, parseVars, catVars, fetchVars>>

\* the caller is done with the result
ProcessForget ==
    /\ aggPc \in {"returned", "threw"}
    /\ aggPc' = "idle"
    /\ aggInput' = <<>>
    /\ aggResult' = EmptyResult
    /\ UNCHANGED <<now, ticks, globalTables, parseVars, catVars, fetchVars>>

NextAggregate ==
    \/ Process
    \/ ProcessForget

SpecAggregate == Init /\ [][NextAggregate]_vars

-----------------------------------------------------------------------------
(* The state machine of the classifier *)

\* the finite bounds of all tables
FiniteBounds ==
    { Categories[code][i].max.tenths : code \in CanonicalCodes, i \in 1..5 }

\* below, at and just above every bound, and the ends of the scale
CategoryValues ==
    { Finite(b + d) : b \in FiniteBounds, d \in {-1, 0, 1} }
    \cup { Finite(-10), Finite(0), Finite(20000) }
    \cup { NotANumber, PlusInfinity, MinusInfinity }

CategoryParameters ==
    CanonicalCodes \cup {"pm2", "pm25nowCast", "O3", "", "constructor"}

\* getAirQualityCategory(parameter, value) is called and returns or raises
Categorize ==
    /\ catPc = "idle"
    /\ \E parameter \in CategoryParameters, value \in CategoryValues :
         /\ catArgs' = [parameter |-> parameter, value |-> value]
         /\ catResult' = GetAirQualityCategory(parameter, value)
         /\ catPc' = GetAirQualityCategory(parameter, value).pc
    /\ catFirst' = NoCategory
    /\ UNCHANGED <<now, ticks, globalTables, parseVars, aggVars, fetchVars>>

\* the caller asks for the category of the same value under "o3"
CategorizeAsOzone ==
    /\ catPc \in {"returned", "threw"}
    /\ catFirst = NoCategory
    /\ catFirst' = catResult
    /\ catResult' = GetAirQualityCategory("o3", catArgs.value)
    /\ catPc' = GetAirQualityCategory("o3", catArgs.value).pc
    /\ UNCHANGED <<now, ticks, globalTables, parseVars, aggVars, fetchVars, catArgs>>

\* the caller is done with the result
CategorizeForget ==
    /\ catPc \in {"returned", "threw"}
    /\ catPc' = "idle"
    /\ catArgs' = NoCategoryArgs
    /\ catResult' = NoCategory
    /\ catFirst' = NoCategory
    /\ UNCHANGED <<now, ticks, globalTables, parseVars, aggVars, fetchVars>>

NextCategory ==
    \/ Categorize
    \/ CategorizeAsOzone
    \/ CategorizeForget

SpecCategory == Init /\ [][NextCategory]_vars

-----------------------------------------------------------------------------
(* The state machine of the fetch: the call, the proxy's answer, the parser *)
(* run on the text, and the settling of the call                            *)

Statuses == {200, 404, 500}

\* the requests of the extractor, and one for the hour 0
FetchRequests ==
    Requests \cup { Request("o3", "2025", "03", "", <<0>>, "") }

\* response.text() gives a text, never null
ResponseTexts == { html \in Markups : ~html.isNull }

\* lines 8-39: fetchAirQualityData(parameter, year, month, day, hour, station)
\* is called and sends its request to the proxy
FetchCall ==
    /\ fetchPc = "idle"
    /\ pc = "idle"
    /\ \E q \in FetchRequests :
         /\ fetchArgs' = q
         /\ fetchSent' = QueryParams(q)
    /\ fetchPc' = "requested"
    /\ UNCHANGED <<now, ticks, globalTables, parseVars, aggVars, catVars,
                   fetchResponse, fetchFailure, fetchResult>>

\* line 39 rejects (no answer from the proxy); lines 51-54 report it
FetchNetworkFailure ==
    /\ fetchPc = "requested"
    /\ fetchPc' = "rejected"
    /\ fetchFailure' = "network"
    /\ UNCHANGED <<now, ticks, globalTables, parseVars, aggVars, catVars,
                   fetchArgs, fetchSent, fetchResponse, fetchResult>>

\* lines 39-43: the proxy answers; a status that is not ok is thrown
FetchRespond ==
    /\ fetchPc = "requested"
    /\ \E status \in Statuses :
         /\ fetchResponse' = status
         /\ IF ResponseOk(status)
            THEN fetchPc' = "reading" /\ fetchFailure' = ""
            ELSE fetchPc' = "rejected" /\ fetchFailure' = "http"
    /\ UNCHANGED <<now, ticks, globalTables, parseVars, aggVars, catVars,
                   fetchArgs, fetchSent, fetchResult>>

\* line 45 rejects: the body cannot be read
FetchTextFailure ==
    /\ fetchPc = "reading"
    /\ fetchPc' = "rejected"
    /\ fetchFailure' = "network"
    /\ UNCHANGED <<now, ticks, globalTables, parseVars, aggVars, catVars,
                   fetchArgs, fetchSent, fetchResponse, fetchResult>>

\* lines 45-48: the text is read and the parser is called on it
FetchText ==
    /\ fetchPc = "reading"
    /\ pc = "idle"
    /\ \E html \in ResponseTexts : Enter(ParserArgs(html, fetchArgs))
    /\ fetchPc' = "parsing"
    /\ UNCHANGED <<now, ticks, globalTables, run, first, aggVars, catVars,
                   fetchArgs, fetchSent, fetchResponse, fetchFailure, fetchResult>>

\* line 50: the parser has returned and the call resolves with its data
FetchResolve ==
    /\ fetchPc = "parsing"
    /\ pc = "returned"
    /\ fetchPc' = "resolved"
    /\ fetchResult' = data
    /\ UNCHANGED <<now, ticks, globalTables, parseVars, aggVars, catVars,
                   fetchArgs, fetchSent, fetchResponse, fetchFailure>>

\* lines 51-54: the parser has raised; the error is logged and thrown again
FetchRethrow ==
    /\ fetchPc = "parsing"
    /\ pc = "threw"
    /\ fetchPc' = "rejected"
    /\ fetchFailure' = "parser"
    /\ UNCHANGED <<now, ticks, globalTables, parseVars, aggVars, catVars,
                   fetchArgs, fetchSent, fetchResponse, fetchResult>>

\* the caller is done with the settled call
FetchForget ==
    /\ fetchPc \in {"resolved", "rejected"}
    /\ fetchPc' = "idle"
    /\ fetchArgs' = NoRequest
    /\ fetchSent' = <<>>
    /\ fetchResponse' = 0
    /\ fetchFailure' = ""
    /\ fetchResult' = <<>>
    /\ pc' = "idle"
    /\ args' = NoArgs
    /\ rows' = <<>>
    /\ fechaIndex' = -1
    /\ horaIndex' = -1
    /\ stationIndices' = <<>>
    /\ day' = ""
    /\ current' = NoClock
    /\ rowIndex' = 0
    /\ data' = <<>>
    /\ caught' = FALSE
    /\ UNCHANGED <<now, ticks, globalTables, run, first, aggVars, catVars>>

NextFetch ==
    \/ FetchCall
    \/ FetchNetworkFailure
    \/ FetchRespond
    \/ FetchTextFailure
    \/ FetchText
    \/ ParseRow
    \/ ParseReturn
    \/ FetchResolve
    \/ FetchRethrow
    \/ FetchForget

SpecFetch == Init /\ [][NextFetch]_vars

-----------------------------------------------------------------------------
(* Properties of the extractor *)

\* the call has ended, by a return or by an exception that escaped
CallEnded == pc \in {"returned", "threw"}

\* this step walks one row
RowStep == pc = "walk" /\ rowIndex' = rowIndex + 1

\* the row the next ParseRow step walks
NextRow == rows[rowIndex + 1]

\* the Observations a step appends to data
Appended == SubSeq(data', Len(data) + 1, Len(data'))

AllDigits(s) == \A i \in 1..Len(s) : IsDigit(CharAt(s, i))

\* C1: parseAirQualityHtml never raises: for every markup (null, empty,
\* shorter than 100 characters, without tables) and every request, the call
\* returns a sequence and no exception escapes to the caller.
C1_NeverRaises == pc # "threw"

\* C2: for any markup that contains zero table elements the call returns an
\* empty sequence of Observations.
C2_NoTablesReturnsEmpty ==
    (CallEnded /\ ~args.html.isNull /\ Len(args.html.tables) = 0)
        => (pc = "returned" /\ data = <<>>)

\* the integer denoted by the first integer token of a text, -1 when the
\* text holds no digit
FirstInteger(text) ==
    IF \E i \in 1..Len(text) : IsDigit(CharAt(text, i))
    THEN LET i == CHOOSE k \in 1..Len(text) :
                    /\ IsDigit(CharAt(text, k))
                    /\ \A m \in 1..(k - 1) : ~IsDigit(CharAt(text, m))
             j == CHOOSE k \in i..Len(text) :
                    /\ AllDigits(SubSeq(text, i, k))
                    /\ (k = Len(text) \/ ~IsDigit(CharAt(text, k + 1)))
         IN  DigitsValue(SubSeq(text, i, j), 0)
    ELSE -1

HourTextValid(h) == Len(h) = 2 /\ AllDigits(h) /\ DigitsValue(h, 0) \in 0..23

NoValidHour(cells) ==
    \/ horaIndex >= Len(cells)
    \/ FirstInteger(cells[horaIndex + 1]) \notin 0..23

\* C3: every emitted Observation has an hour that is a two-character
\* zero-padded text denoting an integer in [0,23]; a row whose hour cell
\* yields no integer in [0,23] contributes no Observation, and the walk goes
\* on to the later rows.
C3_ValidHours ==
    [][ /\ \A k \in 1..Len(data') : HourTextValid(data'[k].hour)
        /\ (RowStep /\ NoValidHour(NextRow)) => (data' = data /\ pc' = "walk")
      ]_vars

\* a row without a valid hour was walked and the row after it was emitted
C3_Witness ==
    /\ pc = "returned"
    /\ Len(rows) = 4
    /\ NoValidHour(rows[3])
    /\ data # <<>>
    /\ \A k \in 1..Len(data) : DigitsValue(data[k].hour, 0) = FirstInteger(rows[4][horaIndex + 1])

IsoDate(d) ==
    /\ Len(d) = 10
    /\ AllDigits(SubSeq(d, 1, 4))
    /\ CharAt(d, 5) = "-"
    /\ AllDigits(SubSeq(d, 6, 7))
    /\ CharAt(d, 8) = "-"
    /\ AllDigits(SubSeq(d, 9, 10))

\* C4: given a 4-digit year and a 2-digit month, every emitted Observation
\* has a date of the form YYYY-MM-DD with numeric components and a two-digit
\* day, whatever digits the date cell or the specificDay filter contain.
C4_DatesIso == \A k \in 1..Len(data) : IsoDate(data[k].date)

\* the station columns of the row that the walk reads
ReadStations(cells) ==
    { k \in 1..Len(stationIndices) : stationIndices[k].col < Len(cells) }

CellText(cells, k) == Trim(cells[stationIndices[k].col + 1])

AppendedFor(k) ==
    { n \in 1..Len(Appended) : Appended[n].station = stationIndices[k].name }

NextRowPasses ==
    ~RowSkipped(NextRow, args, fechaIndex, horaIndex, day, current)

\* C5: in a row that passes the hour and future filters, a station cell whose
\* trimmed text is, in any letter case, one of "-", "n/d", "nr", "nv", "**",
\* "na", "n/a" yields exactly one Observation of that station, with a null
\* value, the uppercased text as rawValue, and date, hour, station and
\* parameter set.
C5_MissingTokenPreserved ==
    [][ (RowStep /\ NextRowPasses) =>
          \A k \in ReadStations(NextRow) :
             ToLowerCase(CellText(NextRow, k))
                   \in {"-", "n/d", "nr", "nv", "**", "na", "n/a"}
             => /\ Cardinality(AppendedFor(k)) = 1
                /\ \A n \in AppendedFor(k) :
                      /\ Appended[n].value = <<>>
                      /\ Appended[n].rawValue = ToUpperCase(CellText(NextRow, k))
                      /\ Appended[n].date # ""
                      /\ Appended[n].hour # ""
                      /\ Appended[n].station # ""
                      /\ Appended[n].parameter = args.parameter
      ]_vars

\* a lower-case token was emitted as a null-valued Observation
C5_Witness ==
    \E k \in 1..Len(data) :
        /\ data[k].value = <<>>
        /\ data[k].rawValue = "N/D"
        /\ data[k].station = "ACO"

\* C6: a station cell whose trimmed text is empty is a missing-data token as
\* well: the walk emits a null-valued Observation for that station and row.
C6_EmptyCellPreserved ==
    [][ (RowStep /\ NextRowPasses) =>
          \A k \in ReadStations(NextRow) :
             CellText(NextRow, k) = ""
             => \E n \in AppendedFor(k) : Appended[n].value = <<>>
      ]_vars

\* the day and the hour the walk resolves for a row, as numbers
ResolvedDayNumber(cells) ==
    ParseInt(ResolvedDay(RowDay(cells, fechaIndex, day), args.specificDay))

RequestIsCurrentPeriod ==
    /\ ParseInt(args.year) = <<current.year>>
    /\ ParseInt(args.month) = ParseInt(current.month)

StrictlyAfterNow(cells) ==
    LET d == ResolvedDayNumber(cells)
        h == RowHour(cells, horaIndex)
        today == ParseInt(current.day)
    IN  /\ d # NaN
        /\ h # NaN
        /\ \/ d[1] > today[1]
           \/ d[1] = today[1] /\ h[1] > current.hour

ExactlyNow(cells) ==
    LET d == ResolvedDayNumber(cells)
        h == RowHour(cells, horaIndex)
    IN  /\ d = ParseInt(current.day)
        /\ h = <<current.hour>>

\* C7: when the request's year and month are the current ones, a row whose
\* resolved (day, hour) is strictly after the current (day, hour) emits no
\* Observation, and a row exactly at the current day and hour is not excluded
\* by the filter, for every day text the date cell can resolve to.
C7_NoFutureData ==
    [][ (RowStep /\ RequestIsCurrentPeriod /\ Len(NextRow) > horaIndex + 1) =>
          /\ StrictlyAfterNow(NextRow) => data' = data
          /\ ExactlyNow(NextRow) =>
                ~SkipFuture(args.year, args.month,
                            ResolvedDay(RowDay(NextRow, fechaIndex, day),
                                        args.specificDay),
                            RowHour(NextRow, horaIndex), current)
      ]_vars

\* C8: two calls on the same markup with the same parameter, year, month and
\* filters yield identical output sequences.
C8_Deterministic ==
    (run = 2 /\ CallEnded) => (pc = first.pc /\ data = first.data)

\* C8 as amended: two calls on the same arguments that read the same wall
\* clock (year, month, day, hour) end alike, with identical output sequences.
C8_DeterministicSameClock ==
    (run = 2 /\ CallEnded /\ current = first.current)
        => (pc = first.pc /\ data = first.data)

\* a repeated call returned Observations under the clock reading of the first
C8_Witness ==
    /\ run = 2
    /\ pc = "returned"
    /\ current = first.current
    /\ current # NoClock
    /\ Len(data) >= 2

-----------------------------------------------------------------------------
(* The aggregator's claims *)

Averages == aggResult.hourlyAverages

\* the positions of the input's non-missing observations of a date and hour
NonMissingAt(date, hour) ==
    { i \in 1..Len(aggInput) :
        /\ aggInput[i].date = date
        /\ aggInput[i].hour = hour
        /\ aggInput[i].value # <<>> }

\* the positions of the input's missing observations of a date and hour
MissingAt(date, hour) ==
    { i \in 1..Len(aggInput) :
        /\ aggInput[i].date = date
        /\ aggInput[i].hour = hour
        /\ aggInput[i].value = <<>> }

RECURSIVE SumOfValues(_)
SumOfValues(positions) ==
    IF positions = {} THEN 0
    ELSE LET i == CHOOSE j \in positions : TRUE
         IN  aggInput[i].value[1] + SumOfValues(positions \ {i})

Distance(x, y) == IF x >= y THEN x - y ELSE y - x

\* C9: the value of every hourly average is the arithmetic mean of the
\* non-missing input values of its date and hour, over all stations, rounded
\* to one decimal: it is a number no further than half a tenth from that mean,
\* and missing values enter neither the sum nor the count.
C9_MeanOfNonMissing ==
    aggPc = "returned" =>
        \A k \in 1..Len(Averages) :
            LET contributing == NonMissingAt(Averages[k].date, Averages[k].hour)
                n == Cardinality(contributing)
            IN  /\ n > 0
                /\ Averages[k].value # NaN
                /\ 2 * Distance(Averages[k].value[1] * n, SumOfValues(contributing)) <= n

\* a returned average over two stations' values whose date and hour also has
\* a missing value, and whose mean is not a whole number of tenths
C9_Witness ==
    /\ aggPc = "returned"
    /\ \E k \in 1..Len(Averages) :
         LET contributing == NonMissingAt(Averages[k].date, Averages[k].hour)
         IN  /\ Cardinality(contributing) >= 2
             /\ MissingAt(Averages[k].date, Averages[k].hour) # {}
             /\ \E i, j \in contributing : aggInput[i].station # aggInput[j].station
             /\ SumOfValues(contributing) % Cardinality(contributing) # 0

\* C10: a (date, hour) has exactly one hourly average if the input has at
\* least one non-missing observation of it, and none otherwise; an empty input
\* gives empty stations and empty hourly averages.
C10_KeysOfNonMissing ==
    aggPc = "returned" =>
        /\ \A i \in 1..Len(aggInput) :
             Cardinality({ k \in 1..Len(Averages) :
                             /\ Averages[k].date = aggInput[i].date
                             /\ Averages[k].hour = aggInput[i].hour })
               = IF NonMissingAt(aggInput[i].date, aggInput[i].hour) # {}
                 THEN 1 ELSE 0
        /\ \A k \in 1..Len(Averages) :
             \E i \in 1..Len(aggInput) :
                 /\ Averages[k].date = aggInput[i].date
                 /\ Averages[k].hour = aggInput[i].hour
        /\ aggInput = <<>> => aggResult = EmptyResult

\* a returned call whose input has a date and hour with missing values only,
\* and another one with two non-missing values
C10_Witness ==
    /\ aggPc = "returned"
    /\ \E i, j \in 1..Len(aggInput) :
         /\ aggInput[i].value = <<>>
         /\ NonMissingAt(aggInput[i].date, aggInput[i].hour) = {}
         /\ Cardinality(NonMissingAt(aggInput[j].date, aggInput[j].hour)) = 2
    /\ Len(Averages) = 1

\* a date of the form YYYY-MM-DD as the number YYYYMMDD
DateNumber(date) ==
    ParseInt(SubSeq(date, 1, 4))[1] * 10000
        + ParseInt(SubSeq(date, 6, 7))[1] * 100
        + ParseInt(SubSeq(date, 9, 10))[1]

HourNumber(hour) == ParseInt(hour)[1]

\* C11: hourlyAverages is sorted by date ascending and, within a date, by
\* hour ascending compared as an integer, whatever the order of the input.
C11_SortedByDateThenHour ==
    aggPc = "returned" =>
        \A j, k \in 1..Len(Averages) :
            j < k =>
                \/ DateNumber(Averages[j].date) < DateNumber(Averages[k].date)
                \/ /\ Averages[j].date = Averages[k].date
                   /\ HourNumber(Averages[j].hour) <= HourNumber(Averages[k].hour)

\* a returned call whose input has the later date first and hour "10" before
\* hour "9", with all three averages in the result
C11_Witness ==
    /\ aggPc = "returned"
    /\ Len(aggInput) = 3
    /\ aggInput[1].date = "2025-03-02"
    /\ aggInput[2].hour = "10"
    /\ aggInput[3].hour = "9"
    /\ Len(Averages) = 3
    /\ Averages[1].hour = "9"

\* the input's observations of a station, in input order
ObservationsOf(station) ==
    LET OfStation(item) == item.station = station
    IN  SelectSeq(aggInput, OfStation)

\* C12: the call returns a stable partition of its input by station: the
\* group keys are distinct and are exactly the stations of the input, and
\* every group holds all the input's observations of its station, the
\* missing-valued ones included, in their input order.
C12_StablePartition ==
    aggPc \in {"returned", "threw"} =>
        /\ aggPc = "returned"
        /\ \A g, h \in 1..Len(aggResult.stations) :
             aggResult.stations[g].station = aggResult.stations[h].station => g = h
        /\ { aggResult.stations[g].station : g \in 1..Len(aggResult.stations) }
             = { aggInput[i].station : i \in 1..Len(aggInput) }
        /\ \A g \in 1..Len(aggResult.stations) :
             aggResult.stations[g].items
               = ObservationsOf(aggResult.stations[g].station)

\* the stations that have a non-missing value for a date and hour
ContributingStations(date, hour) ==
    { aggInput[i].station : i \in NonMissingAt(date, hour) }

\* C13: the stationCount of every hourly average is the number of distinct
\* stations that have a non-missing value for its date and hour, also when
\* the input holds several observations of one station for that date and hour.
C13_StationCountDistinct ==
    aggPc = "returned" =>
        \A k \in 1..Len(Averages) :
            Averages[k].stationCount
              = Cardinality(ContributingStations(Averages[k].date, Averages[k].hour))

-----------------------------------------------------------------------------
(* Properties of the classifier *)

CategoryCallEnded == catPc \in {"returned", "threw"}

\* the call whose outcome is in catResult is the one made with catArgs
FirstCategoryCall == CategoryCallEnded /\ catFirst = NoCategory

IsFiniteValue(value) == value.kind = "finite"

\* the bounds of a table ascend, the last one being infinite
Ascending(thresholds) ==
    /\ \A i \in 1..(Len(thresholds) - 2) :
         thresholds[i].max.tenths < thresholds[i + 1].max.tenths
    /\ thresholds[Len(thresholds)].max = PlusInfinity

\* C14: for a canonical pollutant code and a finite value the call returns
\* the category and color of the first tier, in ascending-bound order, whose
\* upper bound is >= the value: a value equal to a bound falls in that tier
\* (o3 70 is Good), a value just above it in the next one (o3 70.1 is
\* Moderate), and a value above the last finite bound is Hazardous.
C14_FirstTierNotBelowValue ==
    (FirstCategoryCall /\ catArgs.parameter \in CanonicalCodes
       /\ IsFiniteValue(catArgs.value)) =>
        LET tiers == Categories[catArgs.parameter]
            v == catArgs.value.tenths
        IN  /\ catPc = "returned"
            /\ Ascending(tiers)
            /\ \E i \in 1..Len(tiers) :
                 /\ catResult.category = tiers[i].category
                 /\ catResult.color = tiers[i].color
                 /\ i < Len(tiers) => v <= tiers[i].max.tenths
                 /\ \A j \in 1..(i - 1) : v > tiers[j].max.tenths
            /\ (catArgs.parameter = "o3" /\ v = 700) => catResult.category = "Good"
            /\ (catArgs.parameter = "o3" /\ v = 701) => catResult.category = "Moderate"
            /\ v > tiers[Len(tiers) - 1].max.tenths => catResult.category = "Hazardous"

\* a returned call for PM2.5 at 35.4, the bound of its Moderate tier
C14_Witness ==
    /\ FirstCategoryCall
    /\ catPc = "returned"
    /\ catArgs = [parameter |-> "pm25", value |-> Finite(354)]
    /\ catResult.category = "Moderate"

\* C15: for a parameter that is not one of the six canonical codes and a
\* finite value, the call has the same outcome as the call with "o3" and the
\* same value, and both return.
C15_UnknownCodeAsOzone ==
    (CategoryCallEnded /\ catFirst # NoCategory
       /\ catArgs.parameter \notin CanonicalCodes
       /\ IsFiniteValue(catArgs.value)) =>
        /\ catFirst.pc = "returned"
        /\ catFirst = catResult

\* C16: for a value that is NaN, Infinity or -Infinity the call returns the
\* fallback category "Unknown" with color "#808080", for every pollutant code.
C16_NonFiniteUnknown ==
    (FirstCategoryCall /\ catArgs.parameter \in CanonicalCodes
       /\ ~IsFiniteValue(catArgs.value)) =>
        /\ catPc = "returned"
        /\ catResult.category = "Unknown"
        /\ catResult.color = "#808080"

-----------------------------------------------------------------------------
(* Properties of the fetch *)

\* the values sent under a name of the query
SentValues(name) ==
    { fetchSent[i][2] : i \in { j \in 1..Len(fetchSent) : fetchSent[j][1] = name } }

\* C17: the request carries the wire code "pm2" when the caller asked for
\* "pm25" and the caller's code unchanged otherwise, and every Observation the
\* call resolves with has the caller's code as its parameter.
C17_WireCodeOnlyUpstream ==
    /\ fetchPc # "idle" =>
         SentValues("parametro")
           = { IF fetchArgs.parameter = "pm25" THEN "pm2" ELSE fetchArgs.parameter }
    /\ fetchPc = "resolved" =>
         \A i \in 1..Len(fetchResult) :
             fetchResult[i].parameter = fetchArgs.parameter

\* a call for "pm25" that sent "pm2" and resolved with Observations
C17_Witness ==
    /\ fetchPc = "resolved"
    /\ fetchArgs.parameter = "pm25"
    /\ <<"parametro", "pm2">> \in { fetchSent[i] : i \in 1..Len(fetchSent) }
    /\ fetchResult # <<>>

\* C18: the parser is entered only by the step that follows a response of a
\* success status whose text has been read; a response of another status and
\* a network failure make the call reject without the parser being entered.
C18_ParserOnlyAfterText ==
    [][ /\ (pc = "idle" /\ pc' # "idle") =>
              /\ fetchPc = "reading"
              /\ fetchResponse >= 200 /\ fetchResponse <= 299
              /\ fetchPc' = "parsing"
        /\ (fetchPc = "requested" /\ fetchResponse' \notin 200..299) =>
              /\ fetchPc' = "rejected"
              /\ pc' = "idle"
        /\ (fetchPc' = "rejected" /\ fetchFailure' \in {"http", "network"}) =>
              /\ pc' = "idle"
              /\ args' = NoArgs
      ]_vars

\* a call rejected on the status 500 with the parser never entered
C18_Witness ==
    /\ fetchPc = "rejected"
    /\ fetchFailure = "http"
    /\ fetchResponse = 500
    /\ pc = "idle"
    /\ args = NoArgs

-----------------------------------------------------------------------------
(* Properties of the extractor's table and header resolution *)

\* the first of the tables of the greatest row count
FirstGreatest(tables) ==
    CHOOSE i \in 1..Len(tables) :
        /\ \A j \in 1..Len(tables) : Len(tables[j]) <= Len(tables[i])
        /\ \A j \in 1..(i - 1) : Len(tables[j]) < Len(tables[i])

\* C19: the rows the parser walks, and the header it resolved, are those of
\* the table with the greatest row count of the document, the first such
\* table when several share that count.
C19_GreatestTableFirstOfTies ==
    pc = "walk" =>
        LET selected == args.html.tables[FirstGreatest(args.html.tables)]
        IN  /\ rows = selected
            /\ Len(selected) >= 2
            /\ \E cell \in 1..Len(selected[2]) :
                 Includes(ToLowerCase(selected[2][cell]), "hora")

\* the parser walks the third of four tables: the second is smaller and the
\* fourth has as many rows
C19_Witness ==
    /\ pc = "walk"
    /\ args.html.tables = <<LayoutTable, ThreeRows, FourRows, FourRowsToo>>
    /\ rows = FourRows
    /\ rowIndex = Len(rows)
    /\ data # <<>>

\* whether a row has a cell whose text contains "hora", in any case
HasHoraCell(row) ==
    \E cell \in 1..Len(row) : Includes(ToLowerCase(row[cell]), "hora")

\* the 0-based position of the first such cell
HoraCell(row) ==
    (CHOOSE cell \in 1..Len(row) :
        /\ Includes(ToLowerCase(row[cell]), "hora")
        /\ \A other \in 1..(cell - 1) : ~Includes(ToLowerCase(row[other]), "hora")) - 1

\* the rows among the first three of a table that have such a cell and at
\* least one more cell
HoraRows(table) ==
    { r \in 1..3 : r <= Len(table) /\ Len(table[r]) >= 2 /\ HasHoraCell(table[r]) }

\* C20: when one of the first three rows of the selected table has a cell
\* containing "hora" (and a second cell), a call that does not raise resolves
\* such a row as the header, be it the first, second or third row: the hour
\* column is that row's cell and the rows walked are the rows after it.
C20_HeaderInFirstThreeRows ==
    (pc \in {"walk", "returned"} /\ ~caught
       /\ args.html.length >= MinHtmlLength /\ Len(args.html.tables) > 0) =>
        LET selected == args.html.tables[FirstGreatest(args.html.tables)]
        IN  HoraRows(selected) # {} =>
              \E header \in HoraRows(selected) :
                  /\ rows = selected
                  /\ horaIndex = HoraCell(selected[header])
                  /\ rowIndex >= header

-----------------------------------------------------------------------------
(* Properties of the extractor's row walk *)

\* the row's date cell gives no day: there is no Fecha column, or the row has
\* no such cell, or the cell holds no date token
NoDayInRow(cells) ==
    \/ fechaIndex = -1
    \/ fechaIndex >= Len(cells)
    \/ MatchDate(Trim(cells[fechaIndex + 1])) = <<>>

\* the text of a station cell is a missing-data token or holds a number
CellIsToken(text) ==
    ToLowerCase(text) \in {"-", "n/d", "nr", "nv", "**", "na", "n/a"}

CellIsNumber(text) ==
    /\ text # ""
    /\ ~CellIsToken(text)
    /\ StripNonNumeric(text) # ""
    /\ ParseFloat(StripNonNumeric(text)) # NaN

\* the request is for a year before the current one
RequestIsPastYear ==
    /\ ParseInt(args.year) # NaN
    /\ ParseInt(args.year)[1] < current.year

\* C21: a row with a valid hour whose date cell gives no day (or whose header
\* has no Fecha column) is emitted also when no specificDay is supplied: with
\* no hour filter and a request for a past year, its station cells that hold
\* a token or a number give Observations (dated with the default day).
C21_DefaultDayEmitted ==
    [][ (RowStep /\ Len(NextRow) > horaIndex + 1 /\ ~NoValidHour(NextRow)
           /\ NoDayInRow(NextRow) /\ args.specificDay = ""
           /\ args.specificHour = <<>> /\ RequestIsPastYear
           /\ \E k \in ReadStations(NextRow) :
                CellIsToken(CellText(NextRow, k)) \/ CellIsNumber(CellText(NextRow, k)))
          => Appended # <<>>
      ]_vars

\* the day part of an emitted date, behind the request's year and month
DayOfDate(date) ==
    SubSeq(date, Len(args.year) + Len(args.month) + 3, Len(date))

\* the three numbers of the row's date token
DateToken(cells) == MatchDate(Trim(cells[fechaIndex + 1]))

Exceeds31(text) == ParseInt(text) # NaN /\ ParseInt(text)[1] > 31

\* C22: of a date token a/b/c the day is a when c exceeds 31, c when a
\* exceeds 31, and b when no number exceeds 31; the day of an emitted
\* Observation is never a number that exceeds 31.
C22_DayNeverTheYear ==
    [][ (RowStep /\ Appended # <<>> /\ ~NoDayInRow(NextRow)) =>
          LET token == DateToken(NextRow)
          IN  \A n \in 1..Len(Appended) :
                LET d == DayOfDate(Appended[n].date)
                IN  /\ Exceeds31(token[3]) => d = PadStart(token[1], 2, "0")
                    /\ (~Exceeds31(token[3]) /\ Exceeds31(token[1]))
                          => d = PadStart(token[3], 2, "0")
                    /\ (~Exceeds31(token[1]) /\ ~Exceeds31(token[2])
                          /\ ~Exceeds31(token[3]))
                          => d = PadStart(token[2], 2, "0")
                    /\ ~Exceeds31(d)
      ]_vars

\* C23: in a row that passes the row filters, a station cell that is not a
\* missing-data token and holds no number after everything but digits and
\* the decimal point is removed gives no Observation of that station; the
\* cells of the other stations that hold a token or a number each give one,
\* and the walk goes on to the later rows.
C23_CellLevelSkip ==
    [][ (RowStep /\ NextRowPasses) =>
          /\ \A k \in ReadStations(NextRow) :
               LET text == CellText(NextRow, k)
               IN  /\ (text # "" /\ ~CellIsToken(text) /\ ~CellIsNumber(text))
                         => AppendedFor(k) = {}
                   /\ (CellIsToken(text) \/ CellIsNumber(text))
                         => Cardinality(AppendedFor(k)) = 1
          /\ pc' = "walk"
      ]_vars

\* a returned call that dropped the cell "abc" of MER in its first data row,
\* emitted the cell of ACO in that row, and emitted both cells of the next row
C23_Witness ==
    /\ pc = "returned"
    /\ Len(rows) = 4
    /\ rows[3] = <<"06-03-2025", "Hora 7", "**", "abc">>
    /\ rows[4] = <<"3/4/05", "08", "-", "1.2.3">>
    /\ Len(data) = 3
    /\ data[1].station = "ACO" /\ data[1].hour = "07"
    /\ data[2].station = "ACO" /\ data[2].hour = "08"
    /\ data[3].station = "MER" /\ data[3].hour = "08"

\* C24: when a statement raises in the middle of the walk, the call returns:
\* the exception does not escape, and the data returned are the Observations
\* emitted up to the fault, those of the earlier rows and of the cells of the
\* current row already read.
C24_FaultReturnsCollected ==
    [][ /\ caught' => pc' = "returned"
        /\ (pc = "walk" /\ caught') =>
              /\ Len(data') >= Len(data)
              /\ SubSeq(data', 1, Len(data)) = data
              /\ \E n \in 0..Len(RowObservations(NextRow, args, fechaIndex, horaIndex,
                                                  stationIndices, day, current)) :
                   Appended = SubSeq(RowObservations(NextRow, args, fechaIndex,
                                                     horaIndex, stationIndices,
                                                     day, current), 1, n)
      ]_vars

\* a call returned after a fault in its second data row, with the
\* Observations of the first
C24_Witness ==
    /\ pc = "returned"
    /\ caught
    /\ Len(rows) = 4
    /\ rowIndex = 3
    /\ data # <<>>

\* the day the walk resolves for a row, as the code's text
ResolvedDayText(cells) ==
    ResolvedDay(RowDay(cells, fechaIndex, day), args.specificDay)

\* C25: the clock is read once, when the call reaches the row walk, and the
\* reading stays the same for all rows while the clock itself advances: a row
\* of the current day is emitted only if its hour is not after the hour of
\* that one reading.
C25_ClockReadOnce ==
    [][ /\ (pc = "idle" /\ pc' = "walk") => current' = ReadClock(now)
        /\ pc = "walk" => current' = current
        /\ (RowStep /\ RequestIsCurrentPeriod
              /\ ResolvedDayText(NextRow) = current.day) =>
              \A n \in 1..Len(Appended) :
                  ParseInt(Appended[n].hour)[1] <= current.hour
      ]_vars

\* the clock has advanced to 11 h during a walk that began at 10 h, and the
\* row to walk next is of the current day at 11 h
C25_Witness ==
    /\ pc = "walk"
    /\ current.hour = 10
    /\ now.hour = 11
    /\ RequestIsCurrentPeriod
    /\ rowIndex = 3
    /\ Len(rows) = 4
    /\ rows[4] = <<"2025/03/05", "11", " 7.5 ", "">>
    /\ data # <<>>

\* C26: the Fecha column is not read as a station, wherever it stands in the
\* header: no Observation has the header text of the Fecha column as its
\* station, and no station column is the Fecha column.
C26_DateColumnNotAStation ==
    (pc \in {"walk", "returned"} /\ fechaIndex # -1) =>
        /\ \A k \in 1..Len(data) : data[k].station # Trim(rows[2][fechaIndex + 1])
        /\ \A s \in 1..Len(stationIndices) : stationIndices[s].col # fechaIndex

\* the 0-based columns behind the Hora column whose header text is a name
ColumnsNamed(name) ==
    { c \in (horaIndex + 1)..(Len(rows[2]) - 1) : Trim(rows[2][c + 1]) = name }

LastColumnNamed(name) ==
    CHOOSE c \in ColumnsNamed(name) : \A other \in ColumnsNamed(name) : other <= c

\* C27: a row gives at most one Observation per station name, and the cell it
\* is read from is that of the last header column of that name: the cells of
\* the earlier columns of the same name are not emitted.
C27_LastColumnOfAName ==
    [][ RowStep =>
          \A n \in 1..Len(Appended) :
             LET name == Appended[n].station
                 text == Trim(NextRow[LastColumnNamed(name) + 1])
             IN  /\ Cardinality({ m \in 1..Len(Appended) : Appended[m].station = name }) = 1
                 /\ ColumnsNamed(name) # {}
                 /\ LastColumnNamed(name) < Len(NextRow)
                 /\ Appended[n].value = <<>> => Appended[n].rawValue = ToUpperCase(text)
                 /\ Appended[n].value # <<>> =>
                       Appended[n].value = ParseFloat(StripNonNumeric(text))
      ]_vars

\* under the header with two columns named ACO, the row 10 | NR | 2 | 3 gave
\* the one Observation of the last column
C27_Witness ==
    /\ pc = "returned"
    /\ rows = <<TitleRow, HeaderHora, <<"10", "NR", "2", "3">> >>
    /\ Len(data) = 1
    /\ data[1].station = "ACO"
    /\ data[1].value = <<30>>

\* C28: the date of every emitted Observation begins with the year and the
\* month of the request; the row's date cell gives the day only, also when
\* its own month or year is another one.
C28_RequestYearAndMonth ==
    \A k \in 1..Len(data) :
        /\ Len(data[k].date) > Len(args.year) + Len(args.month) + 2
        /\ SubSeq(data[k].date, 1, Len(args.year) + Len(args.month) + 2)
             = args.year \o "-" \o args.month \o "-"

\* a request for 2024/03 emitted the row dated 05/03/2025 under 2024-03-05
C28_Witness ==
    /\ pc = "returned"
    /\ args.year = "2024"
    /\ Len(rows) >= 3
    /\ rows[3][1] = "05/03/2025"
    /\ data # <<>>
    /\ data[1].date = "2024-03-05"

\* the day part of a date of the call's result
FetchedDay(date) ==
    SubSeq(date, Len(fetchArgs.year) + Len(fetchArgs.month) + 3, Len(date))

\* C29: the request carries hora, dia and qestacion exactly when the caller
\* gave an hour, a day and a station, the hour 0 included, and every
\* Observation the call resolves with is of the hour, the day and the
\* station the caller gave.
C29_FiltersSentAndApplied ==
    /\ fetchPc # "idle" =>
         /\ SentValues("hora") # {} <=> fetchArgs.specificHour # NaN
         /\ SentValues("dia") # {} <=> fetchArgs.specificDay # ""
         /\ SentValues("qestacion") # {} <=> fetchArgs.specificStation # ""
    /\ fetchPc = "resolved" =>
         \A i \in 1..Len(fetchResult) :
            /\ fetchArgs.specificHour # NaN =>
                  ParseInt(fetchResult[i].hour) = fetchArgs.specificHour
            /\ fetchArgs.specificStation # "" =>
                  fetchResult[i].station = fetchArgs.specificStation
            /\ fetchArgs.specificDay # "" =>
                  ParseInt(FetchedDay(fetchResult[i].date))
                    = ParseInt(fetchArgs.specificDay)

\* the third to fifth rows of a table that have at least two cells
AlternativeRows(table) ==
    { r \in 3..5 : r <= Len(table) /\ Len(table[r]) >= 2 }

FirstAlternativeRow(table) ==
    table[CHOOSE r \in AlternativeRows(table) :
              \A other \in AlternativeRows(table) : r <= other]

\* C30: when the second row of the selected table has fewer than two cells,
\* a call for pm25 or pm25nowCast takes the first of the third to fifth rows
\* with at least two cells as the header and goes on with it (no exception
\* ends the extraction, and the hour column is that row's), and a call for
\* any other parameter returns an empty sequence.
C30_AlternativeHeaderForPm25 ==
    (pc \in {"walk", "returned"} /\ args.html.length >= MinHtmlLength
       /\ Len(args.html.tables) > 0) =>
        LET selected == args.html.tables[FirstGreatest(args.html.tables)]
        IN  (Len(selected) >= 2 /\ Len(selected[2]) < 2) =>
              IF args.parameter \in {"pm25", "pm25nowCast"}
              THEN AlternativeRows(selected) # {} =>
                     /\ ~caught
                     /\ HasHoraCell(FirstAlternativeRow(selected)) =>
                          /\ rows = selected
                          /\ horaIndex = HoraCell(FirstAlternativeRow(selected))
              ELSE pc = "returned" /\ data = <<>>

====
